---- MODULE Spec2Model ----
(***************************************************************************)
(* A model of the PDF certificate renamer: pdf_name_extractor.py (text     *)
(* normalisation, name location, extraction, collision-safe rename, the    *)
(* single-file command line) and the two batch drivers batch_pdf_rename.py *)
(* and batch_pdf_preview.py.                                               *)
(*                                                                         *)
(* A Python str is a sequence of characters.  An ASCII character is the    *)
(* one-character string itself; a non-ASCII code point is the string       *)
(* "U+XXXX".  An optional value (a str or None) is a record [ok, val].     *)
(***************************************************************************)
EXTENDS Integers, Sequences, FiniteSets, TLC

VARIABLES
    s_in,       \* SpecNorm: the argument of to_snake_case
    once,       \* SpecNorm: to_snake_case(s_in), as an optional value
    twice,      \* SpecNorm: to_snake_case(to_snake_case(s_in))
    text,       \* SpecFind: the argument of find_certification_name
    found,      \* SpecFind: [called, res]: the value returned
    kind,       \* Spec: "absent", "dir" or "file" for the paths pdf and pdf_renamed
    files,      \* Spec: per directory, its listing: file name |-> document
    prog,       \* Spec: the program that runs: "none", "rename", "preview", "single"
    pc,         \* Spec: "idle", "loop" (inside a batch loop) or "done" (exited)
    args,       \* Spec: the single-file tool's arguments [dir, name, preview_only]
    pdf_files,  \* Spec: the batch driver's list(PDF_DIR.glob("*.pdf"))
    idx,        \* Spec: the position of the batch loop in pdf_files
    exit,       \* Spec: the exit status of the program, -1 while there is none
    last,       \* Spec: what the last step of the program did and reported
    pre,        \* Spec: the listings as they were before that step
    start,      \* Spec: [kind, files] as they were when the program started
    runs,       \* Spec: the number of programs started
    pdf_path,   \* SpecExtract: [exists, doc]: what extract_text_from_pdf is given
    extraction  \* SpecExtract: [called, res, ocr_calls]: what it returned and ran

normvars == <<s_in, once, twice>>
findvars == <<text, found>>
fsvars == <<kind, files, prog, pc, args, pdf_files, idx, exit, last, pre, start, runs>>
extvars == <<pdf_path, extraction>>
vars == <<normvars, findvars, fsvars, extvars>>

Dirs == {"pdf", "pdf_renamed"}
NoStep == [op |-> "none", dir |-> "", src |-> <<>>, token |-> <<>>, dest |-> <<>>, why |-> ""]
NoArgs == [dir |-> "", name |-> <<>>, preview_only |-> FALSE]

\* No program, on a disk without either directory.
FsAtRest ==
    /\ kind = [d \in Dirs |-> "absent"]
    /\ files = [d \in Dirs |-> <<>>]
    /\ prog = "none" /\ pc = "idle" /\ args = NoArgs
    /\ pdf_files = <<>> /\ idx = 0 /\ exit = -1 /\ last = NoStep
    /\ pre = [d \in Dirs |-> <<>>]
    /\ start = [kind |-> [d \in Dirs |-> "absent"], files |-> [d \in Dirs |-> <<>>]]
    /\ runs = 0

\* extract_text_from_pdf not called.
NoExtraction == [called |-> FALSE, res |-> [ok |-> FALSE, val |-> <<>>], ocr_calls |-> 0]
ExtractAtRest ==
    /\ pdf_path = [exists |-> FALSE, doc |-> [opens |-> FALSE, pages |-> <<>>]]
    /\ extraction = NoExtraction

----------------------------------------------------------------------------
(* Optional values. *)

None == [ok |-> FALSE, val |-> <<>>]
Some(v) == [ok |-> TRUE, val |-> v]
\* Python truthiness of a str-or-None value: None and "" are false.
Truthy(o) == o.ok /\ o.val # <<>>

----------------------------------------------------------------------------
(* Characters: the classes and the case mapping the code's re and str      *)
(* calls consult.                                                          *)

LowerLetters ==
    <<"a","b","c","d","e","f","g","h","i","j","k","l","m",
      "n","o","p","q","r","s","t","u","v","w","x","y","z">>
UpperLetters ==
    <<"A","B","C","D","E","F","G","H","I","J","K","L","M",
      "N","O","P","Q","R","S","T","U","V","W","X","Y","Z">>
Digits == <<"0","1","2","3","4","5","6","7","8","9">>

Range(f) == {f[i] : i \in DOMAIN f}
AsciiLower == Range(LowerLetters)
AsciiUpper == Range(UpperLetters)
AsciiDigit == Range(Digits)

\* Non-ASCII code points the model carries: U+00E9 e-acute, U+00C9 E-acute,
\* U+0130 capital I with dot above, U+0131 dotless i, U+017F long s (all
\* alphanumeric), U+0307 combining dot above (a mark, not alphanumeric).
UnicodeAlnum == {"U+00E9", "U+00C9", "U+0130", "U+0131", "U+017F"}

\* \s of re on a str, and the characters str.strip() removes.
SpaceChars == {" ", "\t", "\n", "\r", "\f"}
IsSpace(c) == c \in SpaceChars

\* \w of re on a str: alphanumeric in any script, or the underscore.
IsWord(c) ==
    c \in AsciiLower \cup AsciiUpper \cup AsciiDigit \cup UnicodeAlnum \cup {"_"}

\* The lowercase of each ASCII capital.
AsciiToLower ==
    [c \in AsciiUpper |-> LowerLetters[CHOOSE i \in 1..26 : UpperLetters[i] = c]]

\* str.lower() of one character: a sequence, since U+0130 lowers to two.
LowerChar(c) ==
    IF c \in AsciiUpper THEN <<AsciiToLower[c]>>
    ELSE IF c = "U+00C9" THEN <<"U+00E9">>
    ELSE IF c = "U+0130" THEN <<"i", "U+0307">>
    ELSE <<c>>

----------------------------------------------------------------------------
(* str helpers. *)

RECURSIVE Lower(_)
Lower(s) == IF s = <<>> THEN <<>> ELSE LowerChar(Head(s)) \o Lower(Tail(s))

RECURSIVE LStrip(_, _)
LStrip(s, drop) ==
    IF s # <<>> /\ Head(s) \in drop THEN LStrip(Tail(s), drop) ELSE s

RECURSIVE RStrip(_, _)
RStrip(s, drop) ==
    IF s # <<>> /\ s[Len(s)] \in drop
    THEN RStrip(SubSeq(s, 1, Len(s) - 1), drop)
    ELSE s

\* str.strip(): whitespace off both ends.
Strip(s) == RStrip(LStrip(s, SpaceChars), SpaceChars)

\* str.strip('_')
StripUnderscores(s) == RStrip(LStrip(s, {"_"}), {"_"})

\* re.sub(r'[^\w\s]', ' ', s)
SubNonWord(s) ==
    [i \in 1..Len(s) |-> IF IsWord(s[i]) \/ IsSpace(s[i]) THEN s[i] ELSE " "]

\* re.sub(r'\s+', ' ', s) and re.sub(r'_+', '_', s): every run of characters
\* of the set run becomes the one character c.
RECURSIVE CollapseRuns(_, _, _)
CollapseRuns(s, run, c) ==
    IF s = <<>> THEN <<>>
    ELSE IF Head(s) \in run THEN <<c>> \o CollapseRuns(LStrip(s, run), run, c)
    ELSE <<Head(s)>> \o CollapseRuns(Tail(s), run, c)

\* str.replace(' ', '_')
SpacesToUnderscores(s) == [i \in 1..Len(s) |-> IF s[i] = " " THEN "_" ELSE s[i]]

to_snake_case(s) ==
    LET t1 == SubNonWord(s)
        t2 == CollapseRuns(t1, SpaceChars, " ")
        t3 == Lower(Strip(t2))
        t4 == SpacesToUnderscores(t3)
        t5 == CollapseRuns(t4, {"_"}, "_")
    IN  StripUnderscores(t5)

----------------------------------------------------------------------------
(* find_certification_name. *)

\* The words of r'this\s+is\s+to\s+certify\s+that'; \s+ stands between them.
PhraseWords ==
    << <<"t","h","i","s">>, <<"i","s">>, <<"t","o">>,
       <<"c","e","r","t","i","f","y">>, <<"t","h","a","t">> >>

\* re.IGNORECASE on a str: a pattern letter matches both of its cases, and
\* i and s also match U+0130, U+0131 and U+017F.
CaseMatch(c, p) ==
    \/ c = p
    \/ c \in AsciiUpper /\ AsciiToLower[c] = p
    \/ p = "i" /\ c \in {"U+0130", "U+0131"}
    \/ p = "s" /\ c = "U+017F"

WordAt(line, i, w) ==
    /\ i + Len(w) - 1 <= Len(line)
    /\ \A k \in 1..Len(w) : CaseMatch(line[i + k - 1], w[k])

\* The first index at or after i that holds no whitespace (Len + 1 if none):
\* where a greedy \s+ entered at i stops.
RECURSIVE SkipSpaces(_, _)
SkipSpaces(line, i) ==
    IF i <= Len(line) /\ IsSpace(line[i]) THEN SkipSpaces(line, i + 1) ELSE i

\* The phrase's words k.. matched from index i: the index after the match,
\* or 0 when there is none.
RECURSIVE PhraseFrom(_, _, _)
PhraseFrom(line, i, k) ==
    IF ~WordAt(line, i, PhraseWords[k]) THEN 0
    ELSE LET j == i + Len(PhraseWords[k])
         IN  IF k = Len(PhraseWords) THEN j
             ELSE IF j <= Len(line) /\ IsSpace(line[j])
                  THEN PhraseFrom(line, SkipSpaces(line, j), k + 1)
                  ELSE 0

Min(S) == CHOOSE x \in S : \A y \in S : x <= y

\* re.search(r'this\s+is\s+to\s+certify\s+that', line, re.IGNORECASE)
HasPhrase(line) == \E i \in 1..Len(line) : PhraseFrom(line, i, 1) # 0

\* The starts at which r'this\s+is\s+to\s+certify\s+that\s+(.+)' matches: the
\* phrase, at least one whitespace character, at least one more character.
GroupStarts(line) ==
    {i \in 1..Len(line) :
        LET e == PhraseFrom(line, i, 1)
        IN  e # 0 /\ e + 1 <= Len(line) /\ IsSpace(line[e])}

\* match.group(1) of a match whose \s+ run ends before index q: \s+ takes the
\* whole whitespace run and gives its last character back to (.+) when the
\* run reaches the end of the line.
GroupAfter(line, q) ==
    IF q <= Len(line) THEN SubSeq(line, q, Len(line)) ELSE <<line[Len(line)]>>

\* match.group(1) of the leftmost match among starts, or None without one.
LeftmostGroup(line, starts) ==
    IF starts = {} THEN None
    ELSE Some(GroupAfter(line, SkipSpaces(line, PhraseFrom(line, Min(starts), 1))))

\* re.search(r'this\s+is\s+to\s+certify\s+that\s+(.+)', line, re.IGNORECASE)
\* and match.group(1).
SameLineGroup(line) == LeftmostGroup(line, GroupStarts(line))

\* str.split('\n')
RECURSIVE Split(_)
Split(s) ==
    IF \A i \in 1..Len(s) : s[i] # "\n" THEN <<s>>
    ELSE LET n == Min({i \in 1..Len(s) : s[i] = "\n"})
         IN  <<SubSeq(s, 1, n - 1)>> \o Split(SubSeq(s, n + 1, Len(s)))

\* The body of the loop for a line that holds the phrase: the name it
\* returns, or None when the loop goes on to the next line.
MarkerLineName(lines, i) ==
    LET m == SameLineGroup(lines[i])
    IN  IF m.ok /\ Strip(m.val) # <<>> THEN Some(Strip(m.val))
        ELSE IF i + 1 <= Len(lines) /\ Strip(lines[i + 1]) # <<>>
             THEN Some(Strip(lines[i + 1]))
        ELSE IF i + 2 <= Len(lines) /\ Strip(lines[i + 2]) # <<>>
             THEN Some(Strip(lines[i + 2]))
        ELSE None

\* A plausible slip: the loop gives up at the first line that holds the
\* phrase instead of going on to later occurrences.
RECURSIVE ScanLines_StopAtFirst(_, _)
ScanLines_StopAtFirst(lines, i) ==
    IF i > Len(lines) THEN None
    ELSE IF HasPhrase(lines[i]) THEN MarkerLineName(lines, i)
    ELSE ScanLines_StopAtFirst(lines, i + 1)

\* for i, line in enumerate(lines), from line i on.
RECURSIVE ScanLines(_, _)
ScanLines(lines, i) ==
    IF i > Len(lines) THEN None
    ELSE LET name == IF HasPhrase(lines[i]) THEN MarkerLineName(lines, i) ELSE None
         IN  IF name.ok THEN name ELSE ScanLines(lines, i + 1)

find_certification_name(t) ==
    IF ~Truthy(t) THEN None ELSE ScanLines(Split(t.val), 1)

----------------------------------------------------------------------------
(* extract_text_from_pdf.  A PDF file's content is a document: whether     *)
(* fitz.open accepts it and, per page, the embedded text, the text OCR     *)
(* reads off the rendered page, and the step of that page that raises      *)
(* ("none", "load": load_page or get_text, "render": get_pixmap, tobytes   *)
(* or Image.open, "ocr": image_to_string).                                 *)

MinTextLen == 50

\* The first loop: the embedded text of the pages that have some, each
\* followed by a newline.
RECURSIVE DirectText(_)
DirectText(pages) ==
    IF pages = <<>> THEN <<>>
    ELSE (IF Strip(Head(pages).text) # <<>>
          THEN Head(pages).text \o <<"\n">> ELSE <<>>) \o DirectText(Tail(pages))

\* The second loop: every page's OCR text followed by a newline.
RECURSIVE OcrText(_)
OcrText(pages) ==
    IF pages = <<>> THEN <<>>
    ELSE Head(pages).ocr \o <<"\n">> \o OcrText(Tail(pages))

\* A plausible slip: the threshold test taken as "at least" MinTextLen.
extract_text_from_pdf_AtLeast(exists, doc) ==
    IF ~exists \/ ~doc.opens THEN None
    ELSE IF \E i \in 1..Len(doc.pages) : doc.pages[i].fault = "load" THEN None
    ELSE IF Len(Strip(DirectText(doc.pages))) >= MinTextLen
         THEN Some(DirectText(doc.pages))
    ELSE IF \E i \in 1..Len(doc.pages) : doc.pages[i].fault \in {"render", "ocr"}
         THEN None
    ELSE Some(OcrText(doc.pages))

\* exists is FALSE for a path that names no file: fitz.open raises.
extract_text_from_pdf(exists, doc) ==
    IF ~exists \/ ~doc.opens THEN None
    ELSE IF \E i \in 1..Len(doc.pages) : doc.pages[i].fault = "load" THEN None
    ELSE LET direct == DirectText(doc.pages)
         IN  IF Strip(direct) # <<>> /\ Len(Strip(direct)) > MinTextLen
             THEN Some(direct)
             ELSE IF \E i \in 1..Len(doc.pages) :
                         doc.pages[i].fault \in {"render", "ocr"}
                  THEN None
                  ELSE Some(OcrText(doc.pages))

\* The number of pytesseract.image_to_string calls extract_text_from_pdf
\* makes: none unless the second loop is entered, then one per page up to the
\* page whose rendering or OCR raises.
OcrCalls(exists, doc) ==
    IF ~exists \/ ~doc.opens THEN 0
    ELSE IF \E i \in 1..Len(doc.pages) : doc.pages[i].fault = "load" THEN 0
    ELSE IF Len(Strip(DirectText(doc.pages))) > MinTextLen THEN 0
    ELSE LET bad == {i \in 1..Len(doc.pages) : doc.pages[i].fault \in {"render", "ocr"}}
         IN  IF bad = {} THEN Len(doc.pages)
             ELSE IF doc.pages[Min(bad)].fault = "ocr" THEN Min(bad)
             ELSE Min(bad) - 1

----------------------------------------------------------------------------
(* File names and the choice of a free destination name. *)

PdfExt == <<".", "p", "d", "f">>

\* f"{counter}"
RECURSIVE Str(_)
Str(n) ==
    IF n < 10 THEN <<Digits[n + 1]>>
    ELSE Str(n \div 10) \o <<Digits[(n % 10) + 1]>>

EndsWith(s, suffix) ==
    /\ Len(s) >= Len(suffix)
    /\ SubSeq(s, Len(s) - Len(suffix) + 1, Len(s)) = suffix

\* f"{snake_case_name}.pdf" and f"{snake_case_name}_{counter}.pdf"
PlainName(snake) == snake \o PdfExt
NumberedName(snake, counter) == snake \o <<"_">> \o Str(counter) \o PdfExt

\* rename_pdf_file's "while new_path.exists()", entered with new_filename
\* and counter: the file name it leaves with.  names is the directory's
\* listing.
RECURSIVE RenameWhile(_, _, _, _)
RenameWhile(names, new_filename, snake, counter) ==
    IF new_filename \in names
    THEN RenameWhile(names, NumberedName(snake, counter), snake, counter + 1)
    ELSE new_filename

\* A plausible slip in rename_pdf_file: no existence check at all.
RenameTarget_NoCheck(names, snake) == PlainName(snake)

\* rename_pdf_file, from new_filename = f"{snake_case_name}.pdf" to the end
\* of the loop.
RenameTarget(names, snake) == RenameWhile(names, PlainName(snake), snake, 1)

\* batch_pdf_rename.main's "while dest_path.exists()".
RECURSIVE CopyWhile(_, _, _, _)
CopyWhile(names, new_filename, snake, counter) ==
    IF new_filename \in names
    THEN CopyWhile(names, NumberedName(snake, counter), snake, counter + 1)
    ELSE new_filename

\* A plausible slip in batch_pdf_rename.main: the counter started at 0.
CopyTarget_FromZero(names, snake) ==
    CopyWhile(names, PlainName(snake), snake, 0)

\* batch_pdf_rename.main, from new_filename = f"{snake_case_name}.pdf" to the
\* end of the loop.
CopyTarget(names, snake) == CopyWhile(names, PlainName(snake), snake, 1)

\* PDF_DIR.glob("*.pdf")
IsGlobPdf(name) == EndsWith(name, PdfExt)
\* pdf_path.lower().endswith('.pdf')
IsPdfPath(name) == EndsWith(Lower(name), PdfExt)

\* RENAMED_DIR.mkdir(exist_ok=True): the kind of the entry afterwards, or
\* "raise" (FileExistsError) when the name is taken by a non-directory.
\* MkdirExistOk_Strict is the slip of leaving exist_ok out.
MkdirExistOk_Strict(k) == IF k = "absent" THEN "dir" ELSE "raise"
MkdirExistOk(k) ==
    IF k = "absent" THEN "dir" ELSE IF k = "dir" THEN "dir" ELSE "raise"

----------------------------------------------------------------------------
(* SpecNorm: to_snake_case applied to every string over NormAlphabet of    *)
(* length at most MaxNormLen, and applied again to its own result.         *)

MaxNormLen == 3
NormAlphabet == {"a", "B", "1", "_", " ", "\t", "-", "U+00C9", "U+0130"}

RECURSIVE StringsUpTo(_, _)
StringsUpTo(A, n) ==
    IF n = 0 THEN {<<>>}
    ELSE LET shorter == StringsUpTo(A, n - 1)
         IN  shorter \cup {Append(t, c) : t \in shorter, c \in A}

NormInit ==
    /\ s_in \in StringsUpTo(NormAlphabet, MaxNormLen)
    /\ once = None
    /\ twice = None
    /\ text = None
    /\ found = [called |-> FALSE, res |-> None]
    /\ FsAtRest
    /\ ExtractAtRest

Normalize ==
    /\ ~once.ok
    /\ once' = Some(to_snake_case(s_in))
    /\ UNCHANGED <<s_in, twice, findvars, fsvars, extvars>>

NormalizeAgain ==
    /\ once.ok /\ ~twice.ok
    /\ twice' = Some(to_snake_case(once.val))
    /\ UNCHANGED <<s_in, once, findvars, fsvars, extvars>>

NormNext == Normalize \/ NormalizeAgain

SpecNorm == NormInit /\ [][NormNext]_vars

\* C9: normalisation is idempotent: for every input s,
\* to_snake_case(to_snake_case(s)) = to_snake_case(s).
C9_Idempotent == twice.ok => twice.val = once.val

IsTokenChar(c) == c \in AsciiLower \cup AsciiDigit

\* ^[a-z0-9]+(_[a-z0-9]+)*$ or empty: only a-z, 0-9 and single underscores
\* between non-empty runs.
IsCanonicalToken(t) ==
    /\ \A i \in 1..Len(t) : IsTokenChar(t[i]) \/ t[i] = "_"
    /\ t # <<>> => t[1] # "_" /\ t[Len(t)] # "_"
    /\ \A i \in 1..(Len(t) - 1) : ~(t[i] = "_" /\ t[i + 1] = "_")

\* C10: the output of to_snake_case is empty or lowercase a-z / 0-9 runs
\* joined by single underscores, for every input, non-ASCII word characters
\* included.
C10_CanonicalOutput == once.ok => IsCanonicalToken(once.val)

----------------------------------------------------------------------------
(* SpecFind: find_certification_name applied to None and to every text of  *)
(* at most MaxFindLines lines drawn from FindLines.                        *)

MaxFindLines == 4

\* "This is to certify that"
PhrasePlain ==
    <<"T","h","i","s"," ","i","s"," ","t","o"," ",
      "c","e","r","t","i","f","y"," ","t","h","a","t">>
\* "THIS  IS\tto CERTIFY that"
PhraseLoose ==
    <<"T","H","I","S"," "," ","I","S","\t","t","o"," ",
      "C","E","R","T","I","F","Y"," ","t","h","a","t">>

FindLines ==
    { PhrasePlain,                                    \* nothing follows
      PhrasePlain \o <<" ", "\t">>,                   \* two blanks follow
      PhrasePlain \o <<" ", "J", "o", " ">>,          \* a name follows
      PhrasePlain \o <<":", "A", "l">>,               \* text follows unspaced
      <<"x">> \o PhrasePlain \o <<"s", " ">> \o PhraseLoose \o <<"\t", "B", "o">>,
      <<>>,
      <<" ", "E", "d", "\r">>,
      <<"i","s"," ","t","o"," ","c","e","r","t","i","f","y"," ",
        "t","h","a","t"," ","A","l">> }

RECURSIVE Join(_)
Join(lines) ==
    IF Len(lines) = 1 THEN lines[1]
    ELSE lines[1] \o <<"\n">> \o Join(Tail(lines))

RECURSIVE LineSeqs(_)
LineSeqs(n) ==
    IF n = 1 THEN {<<l>> : l \in FindLines}
    ELSE LET shorter == LineSeqs(n - 1)
         IN  shorter \cup {Append(ls, l) : ls \in shorter, l \in FindLines}

FindTexts == {None} \cup {Some(Join(ls)) : ls \in LineSeqs(MaxFindLines)}

FindInit ==
    /\ text \in FindTexts
    /\ found = [called |-> FALSE, res |-> None]
    /\ s_in = <<>>
    /\ once = None
    /\ twice = None
    /\ FsAtRest
    /\ ExtractAtRest

Find ==
    /\ ~found.called
    /\ found' = [called |-> TRUE, res |-> find_certification_name(text)]
    /\ UNCHANGED <<text, normvars, fsvars, extvars>>

FindNext == Find

SpecFind == FindInit /\ [][FindNext]_vars

\* The lines of the text that hold the marker phrase.
MarkerLines(lines) == {i \in 1..Len(lines) : HasPhrase(lines[i])}

\* What follows the first occurrence of the phrase on a line, trimmed.
TrailingText(line) ==
    LET p == Min({i \in 1..Len(line) : PhraseFrom(line, i, 1) # 0})
    IN  Strip(SubSeq(line, PhraseFrom(line, p, 1), Len(line)))

\* C7: when the first marker-phrase line has non-whitespace text after the
\* phrase on that line, find_certification_name returns exactly that text,
\* trimmed, whatever the following lines hold.
C7_SameLineName ==
    (found.called /\ Truthy(text)) =>
        LET lines == Split(text.val)
        IN  MarkerLines(lines) # {} =>
                LET tail == TrailingText(lines[Min(MarkerLines(lines))])
                IN  tail # <<>> => found.res = Some(tail)

\* The name of the first non-blank line among the two that follow line i.
FollowingName(lines, i) ==
    LET cands == {j \in {i + 1, i + 2} : j <= Len(lines) /\ Strip(lines[j]) # <<>>}
    IN  IF cands = {} THEN None ELSE Some(Strip(lines[Min(cands)]))

\* The name marker line i yields: the one on its own line, else the following.
YieldOf(lines, i) ==
    LET m == SameLineGroup(lines[i])
    IN  IF m.ok /\ Strip(m.val) # <<>> THEN Some(Strip(m.val))
        ELSE FollowingName(lines, i)

YieldingLines(lines) ==
    {i \in MarkerLines(lines) : YieldOf(lines, i).ok}

\* What C8 asks of the result res for a text with the given lines, Y being
\* the marker lines that yield a name.
C8_Holds(lines, Y, res) ==
    /\ (Y = {}) <=> ~res.ok
    /\ MarkerLines(lines) = {} => res = None
    /\ Y # {} => res = YieldOf(lines, Min(Y))
    /\ (Y # {} /\ TrailingText(lines[Min(Y)]) = <<>>)
            => res = FollowingName(lines, Min(Y))
    /\ res.ok => res.val # <<>> /\ Strip(res.val) = res.val

----------------------------------------------------------------------------
(* Spec: the three programs run one after another on a disk that holds the *)
(* input directory pdf and the output directory pdf_renamed.               *)

MaxRuns == 3

\* "\nA\nhas completed the course work": with the phrase, more than
\* MinTextLen characters.
DigitalTail ==
    <<"\n","A","\n","h","a","s"," ","c","o","m","p","l","e","t","e","d"," ",
      "t","h","e"," ","c","o","u","r","s","e"," ","w","o","r","k">>

OnePage(embedded, ocr) ==
    [opens |-> TRUE, pages |-> <<[text |-> embedded, ocr |-> ocr, fault |-> "none"]>>]
Unreadable == [opens |-> FALSE, pages |-> <<>>]

\* The documents files hold: a digital certificate for "A"; scans whose OCR
\* text names "a 1", names "!!", or holds no marker phrase; two files that
\* are no PDF at all.
Documents ==
    [ digitalA   |-> OnePage(PhrasePlain \o DigitalTail, <<>>),
      scanA1     |-> OnePage(<<>>, PhrasePlain \o <<" ", "a", " ", "1">>),
      scanPunct  |-> OnePage(<<>>, PhrasePlain \o <<"\n", "!", "!">>),
      scanNoName |-> OnePage(<<>>, <<"h", "e", "l", "l", "o">>),
      broken     |-> Unreadable,
      old        |-> Unreadable ]
DocIds == DOMAIN Documents

\* extract_text_from_pdf and find_certification_name on each document.
ExtractedOf == [d \in DocIds |-> extract_text_from_pdf(TRUE, Documents[d])]
CertNameOf == [d \in DocIds |-> find_certification_name(ExtractedOf[d])]

Xpdf == <<"x", ".", "p", "d", "f">>
Ypdf == <<"y", ".", "p", "d", "f">>
Mpdf == <<"m", ".", "p", "d", "f">>
Ntxt == <<"n", ".", "t", "x", "t">>
Apdf == <<"a", ".", "p", "d", "f">>

\* The input directory at the start: n.txt, and x.pdf and y.pdf each absent
\* ("-") or holding one of the documents; or an empty directory.
InputDocs == DocIds \ {"old"}
InputListing(dx, dy) ==
    [n \in {Ntxt} \cup (IF dx = "-" THEN {} ELSE {Xpdf})
                  \cup (IF dy = "-" THEN {} ELSE {Ypdf})
        |-> IF n = Xpdf THEN dx ELSE IF n = Ypdf THEN dy ELSE "scanNoName"]
InputListings ==
    {<<>>} \cup {InputListing(dx, dy) : dx \in InputDocs \cup {"-"},
                                        dy \in InputDocs \cup {"-"}}
\* The output directory at the start: empty, or a.pdf from an earlier run.
OutputListings == {<<>>, [n \in {Apdf} |-> "old"]}

Listing(k, choices) == IF k = "dir" THEN choices ELSE {<<>>}

Init ==
    /\ kind \in [Dirs -> {"absent", "dir", "file"}]
    /\ \E inp \in Listing(kind["pdf"], InputListings),
          out \in Listing(kind["pdf_renamed"], OutputListings) :
            files = [d \in Dirs |-> IF d = "pdf" THEN inp ELSE out]
    /\ prog = "none" /\ pc = "idle" /\ args = NoArgs
    /\ pdf_files = <<>> /\ idx = 0 /\ exit = -1 /\ last = NoStep
    /\ pre = files
    /\ start = [kind |-> kind, files |-> files]
    /\ runs = 0
    /\ s_in = <<>> /\ once = None /\ twice = None
    /\ text = None /\ found = [called |-> FALSE, res |-> None]
    /\ ExtractAtRest

RECURSIVE Perms(_)
Perms(S) ==
    IF S = {} THEN {<<>>}
    ELSE UNION {{<<x>> \o q : q \in Perms(S \ {x})} : x \in S}

\* A listing with name added (or replaced), and with name removed.
WithFile(listing, name, doc) ==
    [n \in DOMAIN listing \cup {name} |-> IF n = name THEN doc ELSE listing[n]]
\* A plausible slip: the old name is left in place, as a copy would.
WithoutFile_KeepsName(listing, name) == listing
WithoutFile(listing, name) == [n \in DOMAIN listing \ {name} |-> listing[n]]

Exists(d, name) == kind[d] = "dir" /\ name \in DOMAIN files[d]

Step(op, d, src, token, dest, why) ==
    [op |-> op, dir |-> d, src |-> src, token |-> token, dest |-> dest, why |-> why]

\* A program starts: what it remembers of the disk, and that it runs.
Launch(p) ==
    /\ pc = "idle" /\ runs < MaxRuns
    /\ prog' = p
    /\ runs' = runs + 1
    /\ start' = [kind |-> kind, files |-> files]
    /\ pre' = files

\* The program ends with the given status (1 with a traceback when an
\* exception escapes main).
Halt(status) == pc' = "done" /\ exit' = status

\* Both batch drivers, from the test of PDF_DIR to the start of the loop.
ListInput ==
    IF kind["pdf"] # "dir" THEN Halt(1) /\ pdf_files' = <<>> /\ idx' = 0
    ELSE LET listed == {n \in DOMAIN files["pdf"] : IsGlobPdf(n)}
         IN  IF listed = {} THEN Halt(0) /\ pdf_files' = <<>> /\ idx' = 0
             ELSE /\ pdf_files' \in Perms(listed)
                  /\ idx' = 1
                  /\ pc' = "loop"
                  /\ exit' = -1

\* batch_pdf_rename.main up to the loop.  RENAMED_DIR.mkdir may also fail on
\* the disk (a read-only working directory) when it has to create.
BatchRenameStart ==
    /\ Launch("rename")
    /\ \E diskfails \in {FALSE} \cup {kind["pdf_renamed"] = "absent"} :
        LET made == IF diskfails THEN "raise" ELSE MkdirExistOk(kind["pdf_renamed"])
        IN  IF made = "raise"
            THEN /\ Halt(1)
                 /\ last' = Step("crash", "pdf_renamed", <<>>, <<>>, <<>>, "mkdir")
                 /\ UNCHANGED <<kind, pdf_files, idx>>
            ELSE /\ kind' = [kind EXCEPT !["pdf_renamed"] = made]
                 /\ last' = NoStep
                 /\ ListInput
    /\ UNCHANGED <<files, args, normvars, findvars, extvars>>

\* One iteration of batch_pdf_rename.main's loop.  shutil.copy2 may fail on
\* the disk; nothing catches its exception.
BatchRenameIter ==
    /\ prog = "rename" /\ pc = "loop" /\ idx <= Len(pdf_files)
    /\ pre' = files
    /\ LET src == pdf_files[idx]
           doc == files["pdf"][src]
       IN  IF ~Truthy(ExtractedOf[doc])
           THEN /\ last' = Step("skip", "pdf_renamed", src, <<>>, <<>>, "extract")
                /\ idx' = idx + 1
                /\ UNCHANGED <<files, pc, exit>>
           ELSE IF ~Truthy(CertNameOf[doc])
           THEN /\ last' = Step("skip", "pdf_renamed", src, <<>>, <<>>, "noname")
                /\ idx' = idx + 1
                /\ UNCHANGED <<files, pc, exit>>
           ELSE LET snake == to_snake_case(CertNameOf[doc].val)
                    dest == CopyTarget(DOMAIN files["pdf_renamed"], snake)
                IN  \E diskfails \in BOOLEAN :
                        IF diskfails
                        THEN /\ Halt(1)
                             /\ last' = Step("crash", "pdf_renamed", src, snake, dest, "copy")
                             /\ UNCHANGED <<files, idx>>
                        ELSE /\ files' = [files EXCEPT !["pdf_renamed"] =
                                             WithFile(@, dest, doc)]
                             /\ last' = Step("copy", "pdf_renamed", src, snake, dest, "ok")
                             /\ idx' = idx + 1
                             /\ UNCHANGED <<pc, exit>>
    /\ UNCHANGED <<kind, prog, args, pdf_files, start, runs, normvars, findvars, extvars>>

\* batch_pdf_preview.main up to the loop.
BatchPreviewStart ==
    /\ Launch("preview")
    /\ last' = NoStep
    /\ ListInput
    /\ UNCHANGED <<kind, files, args, normvars, findvars, extvars>>

\* One iteration of batch_pdf_preview.main's loop.
BatchPreviewIter ==
    /\ prog = "preview" /\ pc = "loop" /\ idx <= Len(pdf_files)
    /\ pre' = files
    /\ LET src == pdf_files[idx]
           doc == files["pdf"][src]
       IN  last' = Step("skip", "pdf", src, <<>>, <<>>,
                        IF Truthy(ExtractedOf[doc]) THEN "ok" ELSE "extract")
    /\ idx' = idx + 1
    /\ UNCHANGED <<kind, files, prog, pc, args, pdf_files, exit, start, runs,
                   normvars, findvars, extvars>>

\* Either batch loop runs out of files: main returns.
BatchFinish ==
    /\ prog \in {"rename", "preview"} /\ pc = "loop" /\ idx > Len(pdf_files)
    /\ Halt(0)
    /\ UNCHANGED <<kind, files, prog, args, pdf_files, idx, last, pre, start, runs,
                   normvars, findvars, extvars>>

\* rename_pdf_file(pdf_path, new_name) for the existing file name of
\* directory d.  Path.rename may fail on the disk; the except clause turns
\* that into the return value None.
RenamePdfFile(d, name, new_name) ==
    LET snake == to_snake_case(new_name)
        dest == RenameTarget(DOMAIN files[d], snake)
    IN  \E diskfails \in BOOLEAN :
            IF diskfails
            THEN /\ last' = Step("fail", d, name, snake, dest, "rename")
                 /\ Halt(1)
                 /\ UNCHANGED files
            ELSE /\ files' = [files EXCEPT ![d] =
                                 WithFile(WithoutFile(@, name), dest, files[d][name])]
                 /\ last' = Step("rename", d, name, snake, dest, "ok")
                 /\ Halt(0)

Fail(d, name, why) ==
    /\ last' = Step("fail", d, name, <<>>, <<>>, why)
    /\ Halt(1)
    /\ UNCHANGED files

\* process_pdf(pdf_path), and main's sys.exit(0 if success else 1).
ProcessPdf(d, name) ==
    IF ~Exists(d, name) THEN Fail(d, name, "missing")
    ELSE IF ~IsPdfPath(name) THEN Fail(d, name, "notpdf")
    ELSE IF ~Truthy(ExtractedOf[files[d][name]]) THEN Fail(d, name, "extract")
    ELSE IF ~Truthy(CertNameOf[files[d][name]]) THEN Fail(d, name, "noname")
    ELSE RenamePdfFile(d, name, CertNameOf[files[d][name]].val)

\* main's --preview-only branch: it prints what it finds and returns.
PreviewOnly(d, name) ==
    LET extracted == IF Exists(d, name)
                     THEN ExtractedOf[files[d][name]]
                     ELSE extract_text_from_pdf(FALSE, Unreadable)
        cert == find_certification_name(extracted)
    IN  /\ last' = Step("preview", d, name,
                        IF Truthy(cert) THEN to_snake_case(cert.val) ELSE <<>>, <<>>,
                        IF ~Truthy(extracted) THEN "extract"
                        ELSE IF ~Truthy(cert) THEN "noname" ELSE "ok")
        /\ Halt(0)
        /\ UNCHANGED files

\* The paths the single-file tool is given: every file on the disk and
\* pdf/m.pdf, which names no file.
CliPaths ==
    {<<d, n>> : d \in Dirs, n \in UNION {DOMAIN files[e] : e \in Dirs}}

\* pdf_name_extractor.main.
CliMain ==
    /\ Launch("single")
    /\ \E path \in {q \in CliPaths : Exists(q[1], q[2])} \cup {<<"pdf", Mpdf>>},
          preview_only \in BOOLEAN :
            /\ args' = [dir |-> path[1], name |-> path[2], preview_only |-> preview_only]
            /\ IF preview_only
               THEN PreviewOnly(path[1], path[2])
               ELSE ProcessPdf(path[1], path[2])
    /\ UNCHANGED <<kind, pdf_files, idx, normvars, findvars, extvars>>

\* The process is gone; the disk stays.
Reset ==
    /\ pc = "done"
    /\ pc' = "idle" /\ prog' = "none" /\ args' = NoArgs
    /\ pdf_files' = <<>> /\ idx' = 0 /\ exit' = -1 /\ last' = NoStep
    /\ pre' = files
    /\ start' = [kind |-> kind, files |-> files]
    /\ UNCHANGED <<kind, files, runs, normvars, findvars, extvars>>

Next ==
    \/ BatchRenameStart
    \/ BatchRenameIter
    \/ BatchPreviewStart
    \/ BatchPreviewIter
    \/ BatchFinish
    \/ CliMain
    \/ Reset

Spec == Init /\ [][Next]_vars

----------------------------------------------------------------------------
(* Properties of Spec. *)

\* The last step wrote a file: a batch copy or an in-place rename.
Wrote == last.op \in {"copy", "rename"}

\* C1, as stated: after a rename or a batch copy, every file that was in the
\* destination directory before the operation is still there under the same
\* name with the same content.
C1_EveryFileStays ==
    Wrote => \A f \in DOMAIN pre[last.dir] :
                 f \in DOMAIN files[last.dir] /\ files[last.dir][f] = pre[last.dir][f]

\* C1, amended: the destination name a rename or batch copy writes to did
\* not exist when it was chosen, and every file that was on the disk before
\* the step, other than the source an in-place rename moves away, is still
\* there under the same name with the same content.
C1_NoOverwrite ==
    /\ Wrote => /\ last.dest \notin DOMAIN pre[last.dir]
                /\ last.dest \in DOMAIN files[last.dir]
    /\ \A d \in Dirs : \A f \in DOMAIN pre[d] :
            \/ last.op = "rename" /\ d = last.dir /\ f = last.src
            \/ f \in DOMAIN files[d] /\ files[d][f] = pre[d][f]

\* An in-place rename whose plain destination name was taken by another file.
C1_Witness ==
    /\ last.op = "rename"
    /\ PlainName(last.token) \in DOMAIN pre[last.dir]
    /\ PlainName(last.token) # last.src

\* The document a writing step took its name from.
SourceDoc == pre[IF last.op = "copy" THEN "pdf" ELSE last.dir][last.src]

\* C2: the destination of a rename or batch copy for derived token t is t.pdf
\* when that name was free, else t_k.pdf for the smallest k >= 1 whose name
\* was free, in the listing the destination directory had before the step.
C2_SmallestFreeSuffix ==
    Wrote =>
        LET D == DOMAIN pre[last.dir]
            t == last.token
        IN  /\ t = to_snake_case(CertNameOf[SourceDoc].val)
            /\ files[last.dir][last.dest] = SourceDoc
            /\ IF PlainName(t) \notin D THEN last.dest = PlainName(t)
               ELSE \E k \in 1..Cardinality(D) :
                        /\ last.dest = NumberedName(t, k)
                        /\ NumberedName(t, k) \notin D
                        /\ \A j \in 1..(k - 1) : NumberedName(t, j) \in D

\* A batch copy that had to go to the suffix 2.
C2_Witness ==
    /\ last.op = "copy"
    /\ last.dest = NumberedName(last.token, 2)

\* C3: a batch driver that entered its loop leaves it only after the last
\* file of its listing: no failure on one file ends the loop early.
C3_BatchNeverStopsEarly ==
    (prog \in {"rename", "preview"} /\ pc = "done" /\ pdf_files # <<>>)
        => idx = Len(pdf_files) + 1

\* C4: when the candidate name normalises to the empty token, the step fails
\* as InvalidName: no file is renamed or copied and no destination file is
\* created.
C4_EmptyTokenRejected ==
    (last.op \in {"copy", "rename", "crash", "fail"}
        /\ last.why \in {"ok", "copy", "rename"} /\ last.token = <<>>)
        => ~Wrote /\ files = pre

\* A batch driver has finished a run that started on an existing input
\* directory without any *.pdf file.
ZeroPdfRun ==
    /\ prog \in {"rename", "preview"} /\ pc = "done"
    /\ start.kind["pdf"] = "dir"
    /\ \A n \in DOMAIN start.files["pdf"] : ~IsGlobPdf(n)

\* C5, as stated: on an input directory without *.pdf files either batch
\* driver exits 0 and leaves the disk as it was.
C5_ExitZeroNoWrites ==
    ZeroPdfRun => exit = 0 /\ kind = start.kind /\ files = start.files

\* C5, amended: on an input directory without *.pdf files the preview driver
\* exits 0 and writes nothing; the rename driver changes no file and at most
\* creates the output directory pdf_renamed when it was absent, then exits
\* 0; when pdf_renamed cannot be created (it is a non-directory, or the disk
\* refuses) the run ends with status 1 and the disk as it was.
C5_OnlyOutputDirCreated ==
    ZeroPdfRun =>
        /\ files = start.files
        /\ kind["pdf"] = start.kind["pdf"]
        /\ prog = "preview" => exit = 0 /\ kind = start.kind
        /\ prog = "rename" =>
            \/ /\ exit = 0
               /\ start.kind["pdf_renamed"] \in {"absent", "dir"}
               /\ kind["pdf_renamed"] = "dir"
            \/ /\ exit = 1
               /\ start.kind["pdf_renamed"] # "dir"
               /\ kind = start.kind
               /\ last.why = "mkdir"

\* The rename driver found no *.pdf file and left a new output directory.
C5_Witness ==
    /\ ZeroPdfRun /\ prog = "rename" /\ exit = 0
    /\ start.kind["pdf_renamed"] = "absent" /\ kind["pdf_renamed"] = "dir"

\* C6: the single-file tool exits 0 exactly when processing succeeded and 1
\* on any processing failure, with and without --preview-only.
C6_ExitReflectsSuccess ==
    (prog = "single" /\ pc = "done") =>
        /\ exit = 0 <=> last.why = "ok"
        /\ exit = 1 <=> last.why # "ok"

\* The names of the listing that hold document doc.
Holders(listing, doc) == {n \in DOMAIN listing : listing[n] = doc}

\* C12: an in-place rename never keeps the source's name.  When the source is
\* already named {token}.pdf it counts as a collision and the file goes to
\* {token}_k.pdf for the smallest k >= 1 whose name is free, so processing a
\* document again gives it another name; afterwards the document is in one
\* file, under the new name only, and no other file of the disk has changed.
C12_RenameOfOwnNameMoves ==
    last.op = "rename" =>
        LET D == DOMAIN pre[last.dir]
            now == files[last.dir]
            doc == pre[last.dir][last.src]
        IN  /\ last.dest # last.src
            /\ last.src = PlainName(last.token) =>
                   \E k \in 1..Cardinality(D) :
                       /\ last.dest = NumberedName(last.token, k)
                       /\ \A j \in 1..(k - 1) : NumberedName(last.token, j) \in D
            /\ DOMAIN now = (D \ {last.src}) \cup {last.dest}
            /\ now[last.dest] = doc
            /\ \A f \in D \ {last.src} : now[f] = pre[last.dir][f]
            /\ \A d \in Dirs \ {last.dir} : files[d] = pre[d]
            /\ Cardinality(Holders(now, doc)) = Cardinality(Holders(pre[last.dir], doc))
            /\ Holders(pre[last.dir], doc) = {last.src} => Holders(now, doc) = {last.dest}

\* A file already named {token}.pdf, the only one with its content, was
\* processed again and went to {token}_1.pdf.
C12_Witness ==
    /\ last.op = "rename"
    /\ last.src = PlainName(last.token)
    /\ last.dest = NumberedName(last.token, 1)
    /\ Holders(files[last.dir], files[last.dir][last.dest]) = {last.dest}

----------------------------------------------------------------------------
(* SpecExtract: extract_text_from_pdf applied to a path that names no file *)
(* and to every document of at most MaxPages pages drawn from              *)
(* ExtractPages.                                                           *)

MaxPages == 2

Fill(n) == [i \in 1..n |-> "e"]
HalfLen == MinTextLen \div 2

\* Embedded page texts: none, blank, and texts of which two, joined by the
\* newline between pages, stay at MinTextLen or pass it.
EmbeddedTexts ==
    { <<>>, <<" ">>, Fill(HalfLen - 1), Fill(HalfLen),
      <<" ">> \o Fill(HalfLen - 1) }

\* A page: its embedded text, and either its OCR text or the step that raises.
ExtractPages ==
    {[text |-> e, ocr |-> o, fault |-> "none"] : e \in EmbeddedTexts, o \in {<<>>, <<"o">>}}
    \cup {[text |-> e, ocr |-> <<>>, fault |-> f] :
            e \in EmbeddedTexts, f \in {"load", "render", "ocr"}}

RECURSIVE PageSeqs(_)
PageSeqs(n) ==
    IF n = 0 THEN {<<>>}
    ELSE LET shorter == PageSeqs(n - 1)
         IN  shorter \cup {Append(ps, pg) : ps \in shorter, pg \in ExtractPages}

ExtractDocs ==
    {Unreadable} \cup {[opens |-> TRUE, pages |-> ps] : ps \in PageSeqs(MaxPages)}

ExtractInit ==
    /\ pdf_path \in [exists : BOOLEAN, doc : ExtractDocs]
    /\ extraction = NoExtraction
    /\ s_in = <<>> /\ once = None /\ twice = None
    /\ text = None /\ found = [called |-> FALSE, res |-> None]
    /\ FsAtRest

Extract ==
    /\ ~extraction.called
    /\ extraction' =
        [called |-> TRUE,
         res |-> extract_text_from_pdf(pdf_path.exists, pdf_path.doc),
         ocr_calls |-> OcrCalls(pdf_path.exists, pdf_path.doc)]
    /\ UNCHANGED <<pdf_path, normvars, findvars, fsvars>>

ExtractNext == Extract

SpecExtract == ExtractInit /\ [][ExtractNext]_vars

\* What C11 asks of the result res and the number of OCR calls, for pages
\* whose embedded text is embedded: opened says fitz.open succeeded.
C11_Holds(opened, pages, embedded, res, calls) ==
    LET fast == Len(Strip(embedded)) > 50
        raised ==
            \/ ~opened
            \/ \E i \in 1..Len(pages) : pages[i].fault = "load"
            \/ ~fast /\ \E i \in 1..Len(pages) : pages[i].fault \in {"render", "ocr"}
    IN  /\ raised => res = None
        /\ (~raised /\ fast) => res = Some(embedded) /\ calls = 0
        /\ (~raised /\ ~fast) => res = Some(OcrText(pages)) /\ calls = Len(pages)

\* C11: extract_text_from_pdf returns the concatenated embedded page text,
\* without running OCR, exactly when its trimmed length is greater than 50;
\* otherwise the result is the concatenation of the per-page OCR texts only;
\* and an exception raised at any step (open, page load, render, OCR) gives
\* None, with no partial text.
C11_ExtractionOutcome ==
    extraction.called =>
        C11_Holds(pdf_path.exists /\ pdf_path.doc.opens, pdf_path.doc.pages,
                  DirectText(pdf_path.doc.pages), extraction.res,
                  extraction.ocr_calls)

\* Embedded text of exactly 51 trimmed characters came back, and no OCR ran
\* although OCR of a page would have raised.
C11_Witness ==
    /\ extraction.called /\ extraction.res.ok /\ extraction.ocr_calls = 0
    /\ Len(Strip(extraction.res.val)) = 51
    /\ \E i \in 1..Len(pdf_path.doc.pages) : pdf_path.doc.pages[i].fault = "ocr"

====
